---------------------------- MODULE Spec2Model ----------------------------
(***************************************************************************)
(* A model of src/app.py (coffee-chat booking agent):                      *)
(*   - CoffeeChatAgent._parse_date_range and                               *)
(*     CoffeeChatAgent.check_calendar_availability (specification          *)
(*     SpecAvail), and                                                     *)
(*   - chat_endpoint / CoffeeChatAgent.chat / execute_tool, the tool       *)
(*     dispatch loop (specification SpecChat).                             *)
(*                                                                         *)
(* Time.  A naive datetime is a number of minutes since 2024-01-01 00:00   *)
(* (a Monday) on its own wall clock; its date is the day number            *)
(* (minutes \div 1440), so day 0 is Monday 2024-01-01 and                  *)
(* weekday = day % 7 as Python's date.weekday().  A timezone-aware         *)
(* datetime is a record [local, off]: the wall-clock minutes and the UTC   *)
(* offset in minutes; aware datetimes compare by instant (local - off).    *)
(* The modelled horizon lies in January 2024, where America/New_York is    *)
(* at UTC-5 throughout.  Seconds are not modelled.                         *)
(***************************************************************************)
EXTENDS Integers, Sequences, FiniteSets, TLC

VARIABLES
    \* ---- check_calendar_availability (SpecAvail) ----
    avail_pc,          \* "idle" | "returned" | "raised"
    date_range,        \* the phrase passed in, a sequence of characters
    duration,          \* the duration passed in (minutes)
    now_utc,           \* the clock at the call, minutes since epoch, UTC
    server_off,        \* UTC offset of the server's local zone (minutes)
    busy_times,        \* eventsResult['calendars'][id]['busy']
    freebusy_body,     \* the body sent to freebusy().query
    dates_iterated,    \* the values current_date took inside the while loop
    avail_result,      \* the dict returned
    \* ---- chat_endpoint / chat (SpecChat) ----
    pc,                \* per request: position in chat_endpoint / chat
    req_history,       \* per request: request.conversation_history
    response,          \* per request: the last co.chat response
    tool_results,      \* per request: tool_results of the current round
    rounds,            \* per request: tool rounds completed or under way
    last_exec,         \* per request: the call the request's latest step executed and
                       \* how it ended; None when that step was not execute_tool
    failure,           \* per request: the exception that left chat(), or "none"
    conversation_history, \* per agent instance: self.conversation_history
    chat_response      \* per request: the ChatResponse returned

avail_vars == <<avail_pc, date_range, duration, now_utc, server_off, busy_times,
                freebusy_body, dates_iterated, avail_result>>
chat_vars == <<pc, req_history, response, tool_results, rounds, last_exec,
               failure, conversation_history, chat_response>>
vars == <<avail_vars, chat_vars>>

\* Python's None, where a dict or an object is expected
None == [none |-> TRUE]

-----------------------------------------------------------------------------
(* Bounds of the model *)

\* at most this many busy intervals in one free/busy answer
MaxBusy == 2
\* at most this many tool rounds per chat request
MaxRounds == 1

-----------------------------------------------------------------------------
(* Calendar arithmetic *)

MinutesPerDay == 24 * 60

DateOf(naive) == naive \div MinutesPerDay

TimeOfDay(naive) == naive % MinutesPerDay

\* date.weekday(): Monday = 0 .. Sunday = 6
Weekday(date) == date % 7

\* timedelta(days=n) added to a naive datetime
PlusDays(naive, n) == naive + n * MinutesPerDay

\* the instant of an aware datetime, as UTC minutes (what <, > compare)
Instant(dt) == dt.local - dt.off

\* aware + timedelta(minutes=m): the wall clock moves, the tzinfo stays
PlusMinutes(dt, m) == [local |-> dt.local + m, off |-> dt.off]

\* pytz.timezone('America/New_York') in the modelled horizon
EasternOffset == -300

\* eastern.localize(naive)
Localize(naive) == [local |-> naive, off |-> EasternOffset]

\* dt.astimezone(eastern)
AsTimezoneEastern(dt) == [local |-> Instant(dt) + EasternOffset, off |-> EasternOffset]

\* datetime.now(eastern)
NowEastern(utc) == [local |-> utc + EasternOffset, off |-> EasternOffset]

\* datetime.now(): the server's naive wall clock
NowNaive(utc, off) == utc + off


-----------------------------------------------------------------------------
(* Text: a phrase is a sequence of one-character strings *)

UpperCase == <<"A","B","C","D","E","F","G","H","I","J","K","L","M",
               "N","O","P","Q","R","S","T","U","V","W","X","Y","Z">>

LowerCase == <<"a","b","c","d","e","f","g","h","i","j","k","l","m",
               "n","o","p","q","r","s","t","u","v","w","x","y","z">>

LowerChar(c) ==
    IF \E i \in DOMAIN UpperCase : UpperCase[i] = c
    THEN LowerCase[CHOOSE i \in DOMAIN UpperCase : UpperCase[i] = c]
    ELSE c

\* str.lower()
Lower(s) == [i \in DOMAIN s |-> LowerChar(s[i])]

\* sub in s
Contains(s, sub) ==
    \E k \in 0..(Len(s) - Len(sub)) : \A i \in 1..Len(sub) : s[k + i] = sub[i]

NEXT_WEEK == <<"n", "e", "x", "t", " ", "w", "e", "e", "k">>
THIS_WEEK == <<"t", "h", "i", "s", " ", "w", "e", "e", "k">>
TOMORROW == <<"t", "o", "m", "o", "r", "r", "o", "w">>

\* the phrases the model passes as date_range
Phrases ==
    { <<"n", "e", "x", "t", " ", "w", "e", "e", "k">>,
      <<"N", "e", "x", "t", " ", "W", "e", "e", "k">>,
      <<"t", "h", "i", "s", " ", "w", "e", "e", "k">>,
      <<"T", "o", "m", "o", "r", "r", "o", "w">>,
      <<"t", "o", "m", "o", "r", "r", "o", "w", " ", "n", "e", "x", "t", " ", "w", "e", "e", "k">>,
      <<"f", "r", "i", "d", "a", "y">> }

-----------------------------------------------------------------------------
(* CoffeeChatAgent._parse_date_range *)

\* which branch of the if/elif chain a phrase takes
Branch(phrase) ==
    IF Contains(Lower(phrase), NEXT_WEEK) THEN "next week"
    ELSE IF Contains(Lower(phrase), THIS_WEEK) THEN "this week"
    ELSE IF Contains(Lower(phrase), TOMORROW) THEN "tomorrow"
    ELSE "default"

\* a variant of _parse_date_range whose "next week" is the Monday on or after
\* the reference date: days=(7 - now.weekday()) % 7
ParseDateRangeMondayOnOrAfter(phrase, now) ==
    LET b == Branch(phrase) IN
    IF b = "next week"
    THEN LET start == PlusDays(now, (7 - Weekday(DateOf(now))) % 7)
         IN  [start |-> start, end |-> PlusDays(start, 7)]
    ELSE IF b = "this week"
    THEN [start |-> now, end |-> PlusDays(now, 6 - Weekday(DateOf(now)))]
    ELSE IF b = "tomorrow"
    THEN LET start == PlusDays(now, 1)
         IN  [start |-> start, end |-> PlusDays(start, 1)]
    ELSE [start |-> now, end |-> PlusDays(now, 7)]

\* (start, end) as naive datetimes; now is datetime.now()
ParseDateRange(phrase, now) ==
    LET b == Branch(phrase) IN
    IF b = "next week"
    THEN LET start == PlusDays(now, 7 - Weekday(DateOf(now)))
         IN  [start |-> start, end |-> PlusDays(start, 7)]
    ELSE IF b = "this week"
    THEN [start |-> now, end |-> PlusDays(now, 6 - Weekday(DateOf(now)))]
    ELSE IF b = "tomorrow"
    THEN LET start == PlusDays(now, 1)
         IN  [start |-> start, end |-> PlusDays(start, 1)]
    ELSE [start |-> now, end |-> PlusDays(now, 7)]

-----------------------------------------------------------------------------
(* CoffeeChatAgent.check_calendar_availability *)

min_advance_hours == 24

\* available_slots[:5]
SlotLimit == 5

\* an RFC 3339 timestamp of the free/busy answer: wall-clock minutes and a
\* zone suffix, "Z" or a numeric offset
\* datetime.fromisoformat(ts.replace('Z', '+00:00'))
FromIsoformat(ts) ==
    [local |-> ts.wall, off |-> IF ts.suffix = "Z" THEN 0 ELSE -300]

\* naive.isoformat() + 'Z': the naive wall clock, labelled UTC
IsoformatZ(naive) == [wall |-> naive, suffix |-> "Z"]

\* a < b on aware datetimes
Earlier(a, b) == Instant(a) < Instant(b)

\* for hour in range(9, 21)
Hours == 9 .. 20

\* for minute in [0, 30]
MinuteSteps == <<0, 30>>

\* the times of day the two nested for loops visit, in order
TimesOfDay ==
    [i \in 1 .. (Cardinality(Hours) * Len(MinuteSteps)) |->
        (9 + ((i - 1) \div Len(MinuteSteps))) * 60
            + MinuteSteps[1 + ((i - 1) % Len(MinuteSteps))]]

\* slot_start for a date and a time of day
SlotStart(date, tod) == Localize(date * MinutesPerDay + tod)

\* a variant of the conflict test with closed intervals, in which touching
\* boundaries conflict: slot_start <= busy_end and slot_end >= busy_start
IsFreeClosed(slot_start, slot_end, busy) ==
    ~ \E b \in busy :
        LET busy_start == AsTimezoneEastern(FromIsoformat(b.start))
            busy_end == AsTimezoneEastern(FromIsoformat(b.end))
        IN  ~ Earlier(busy_end, slot_start) /\ ~ Earlier(slot_end, busy_start)

\* a variant of the conflict test that looks only at where the slot starts:
\* busy_start <= slot_start < busy_end
IsFreeStartOnly(slot_start, slot_end, busy) ==
    ~ \E b \in busy :
        LET busy_start == AsTimezoneEastern(FromIsoformat(b.start))
            busy_end == AsTimezoneEastern(FromIsoformat(b.end))
        IN  Earlier(slot_start, busy_end) /\ ~ Earlier(slot_start, busy_start)

\* the inner loop over busy_times: is_free
IsFree(slot_start, slot_end, busy) ==
    ~ \E b \in busy :
        LET busy_start == AsTimezoneEastern(FromIsoformat(b.start))
            busy_end == AsTimezoneEastern(FromIsoformat(b.end))
        IN  Earlier(slot_start, busy_end) /\ Earlier(busy_start, slot_end)

\* a variant of the advance-notice test: slot_start >= earliest_booking_time
NotBeforeEarliest(slot_start, earliest) == ~ Earlier(slot_start, earliest)

\* slot_start > earliest_booking_time
AfterEarliest(slot_start, earliest) == Earlier(earliest, slot_start)

\* if is_free and slot_start > earliest_booking_time
Accepts(slot_start, dur, busy, earliest) ==
    /\ IsFree(slot_start, PlusMinutes(slot_start, dur), busy)
    /\ AfterEarliest(slot_start, earliest)

\* the dict appended to available_slots ("formatted" repeats day, date, time)
SlotDict(date, slot_start) ==
    [date |-> date, time |-> TimeOfDay(slot_start.local), day |-> Weekday(date)]

\* a variant of the weekend test that lets Saturday through: weekday() < 6
IsWeekdayOrSaturday(date) == Weekday(date) < 6

\* if current_date.weekday() < 5
IsWeekday(date) == Weekday(date) < 5

\* what one pass of the while body appends for current_date
SlotsOnDate(date, dur, busy, earliest) ==
    IF IsWeekday(date)
    THEN LET Keep(tod) == Accepts(SlotStart(date, tod), dur, busy, earliest)
             kept == SelectSeq(TimesOfDay, Keep)
         IN  [i \in 1 .. Len(kept) |-> SlotDict(date, SlotStart(date, kept[i]))]
    ELSE <<>>

\* while current_date <= end_date: the dates visited, in order
RECURSIVE DatesLoop(_, _)
DatesLoop(current_date, end_date) ==
    IF current_date <= end_date
    THEN <<current_date>> \o DatesLoop(current_date + 1, end_date)
    ELSE <<>>

RECURSIVE CollectSlots(_, _, _, _)
CollectSlots(dates, dur, busy, earliest) ==
    IF dates = <<>> THEN <<>>
    ELSE SlotsOnDate(Head(dates), dur, busy, earliest)
            \o CollectSlots(Tail(dates), dur, busy, earliest)

\* a variant that returns the whole list
TruncateNothing(slots) == slots

\* available_slots = available_slots[:5]
Truncate(slots) ==
    SubSeq(slots, 1, IF Len(slots) < SlotLimit THEN Len(slots) ELSE SlotLimit)

\* the body of the free/busy query
QueryBody(range) ==
    [timeMin |-> IsoformatZ(range.start), timeMax |-> IsoformatZ(range.end)]

\* the dict returned when the query succeeds
AvailabilityResult(range, dur, busy, now) ==
    LET earliest == PlusMinutes(NowEastern(now), min_advance_hours * 60)
        dates == DatesLoop(DateOf(range.start), DateOf(range.end))
    IN  [available_slots |-> Truncate(CollectSlots(dates, dur, busy, earliest)),
         duration |-> dur,
         timezone |-> "EST"]

(* Inputs of the model *)

Durations == {30, 60}

\* the clock at the call: a day of the week 2024-01-01 .. 2024-01-07 and a
\* time of day 10:00 or 20:00 Eastern (20:00 is 01:00 of the next day in UTC)
Nows == { d * MinutesPerDay + tod - EasternOffset :
            d \in 0 .. 6, tod \in {10 * 60, 20 * 60} }

\* the server runs on UTC or on Eastern time
ServerOffsets == {0, EasternOffset}

\* a busy interval on an Eastern date, given by Eastern times of day, as the
\* provider reports it in UTC ("Z")
BusyZ(date, from, to) ==
    [start |-> [wall |-> date * MinutesPerDay + from - EasternOffset, suffix |-> "Z"],
     end |-> [wall |-> date * MinutesPerDay + to - EasternOffset, suffix |-> "Z"]]

\* the same, reported with an explicit -05:00 offset
BusyOffset(date, from, to) ==
    [start |-> [wall |-> date * MinutesPerDay + from, suffix |-> "-05:00"],
     end |-> [wall |-> date * MinutesPerDay + to, suffix |-> "-05:00"]]

\* the busy intervals the provider may report around a date
BusyCandidates(date) ==
    UNION { { BusyZ(d, 10 * 60 + 15, 10 * 60 + 45),
              BusyZ(d, 9 * 60, 21 * 60),
              BusyOffset(d, 10 * 60, 10 * 60 + 30) } : d \in {date, date + 1} }

BusySets(date) == { B \in SUBSET BusyCandidates(date) : Cardinality(B) <= MaxBusy }

\* the query answers; the slots are computed and returned
CheckAvailabilityOk ==
    /\ avail_pc = "idle"
    /\ \E phrase \in Phrases, dur \in Durations :
        LET range == ParseDateRange(phrase, NowNaive(now_utc, server_off)) IN
        \E busy \in BusySets(DateOf(range.start)) :
            /\ date_range' = phrase
            /\ duration' = dur
            /\ freebusy_body' = QueryBody(range)
            /\ busy_times' = busy
            /\ dates_iterated' = DatesLoop(DateOf(range.start), DateOf(range.end))
            /\ avail_result' = AvailabilityResult(range, dur, busy, now_utc)
    /\ avail_pc' = "returned"
    /\ UNCHANGED <<now_utc, server_off>>
    /\ UNCHANGED chat_vars

\* the query raises HttpError: except HttpError returns an error dict
CheckAvailabilityHttpError ==
    /\ avail_pc = "idle"
    /\ \E phrase \in Phrases, dur \in Durations :
        /\ date_range' = phrase
        /\ duration' = dur
        /\ freebusy_body' = QueryBody(ParseDateRange(phrase, NowNaive(now_utc, server_off)))
    /\ avail_result' = [error |-> "Calendar check failed"]
    /\ avail_pc' = "returned"
    /\ UNCHANGED <<now_utc, server_off, busy_times, dates_iterated>>
    /\ UNCHANGED chat_vars

\* the answer lacks ['calendars'][calendar_id]['busy']: KeyError is not caught
CheckAvailabilityKeyError ==
    /\ avail_pc = "idle"
    /\ \E phrase \in Phrases, dur \in Durations :
        /\ date_range' = phrase
        /\ duration' = dur
        /\ freebusy_body' = QueryBody(ParseDateRange(phrase, NowNaive(now_utc, server_off)))
    /\ avail_pc' = "raised"
    /\ UNCHANGED <<now_utc, server_off, busy_times, dates_iterated, avail_result>>
    /\ UNCHANGED chat_vars

\* before a call: the server's zone and the clock are the environment's
InitAvail ==
    /\ avail_pc = "idle"
    /\ date_range = <<>>
    /\ duration = 0
    /\ now_utc \in Nows
    /\ server_off \in ServerOffsets
    /\ busy_times = {}
    /\ freebusy_body = None
    /\ dates_iterated = <<>>
    /\ avail_result = None

\* the availability part at rest, for the specification of the chat part
InitAvailIdle ==
    /\ InitAvail
    /\ now_utc = 10 * 60 - EasternOffset
    /\ server_off = 0

NextAvail ==
    \/ CheckAvailabilityOk
    \/ CheckAvailabilityHttpError
    \/ CheckAvailabilityKeyError

-----------------------------------------------------------------------------
(* chat_endpoint, CoffeeChatAgent.chat, CoffeeChatAgent.execute_tool *)

\* two concurrent POST /api/chat requests
Requests == {1, 2}

\* a variant in which every request is served by one module-level agent
SharedAgent(r) == 1

\* agent = CoffeeChatAgent(COHERE_API_KEY): an instance of the request's own
AgentOf(r) == r

Agents == {AgentOf(r) : r \in Requests}

CHECK == "check_calendar_availability"
CREATE == "create_google_meet_event"
SEND == "send_confirmation_email"
UNKNOWN == "cancel_event"

Call(name, params) == [name |-> name, parameters |-> params]

\* the tool_calls a model response may carry
Batches ==
    { <<>>,
      <<Call(CHECK, "p1")>>,
      <<Call(CREATE, "p1")>>,
      <<Call(UNKNOWN, "p1")>>,
      <<Call(CREATE, "p1"), Call(SEND, "p2")>> }

\* how the body of a tool can end: "none" (it returns normally) or the
\* exception raised in it.  HttpError: the provider fails.  KeyError: the
\* provider's answer lacks a key read from it (['calendars'][id]['busy'],
\* ['id'], ['htmlLink']).  TypeError: **parameters does not fit the
\* signature.  ValueError: strptime on a malformed date or time.
\* JSONDecodeError: json.loads(event_details).
Endings(name) ==
    IF name = CHECK THEN {"none", "HttpError", "KeyError", "TypeError"}
    ELSE IF name = CREATE THEN {"none", "HttpError", "ValueError", "KeyError"}
    ELSE IF name = SEND THEN {"none", "HttpError", "JSONDecodeError", "ValueError"}
    ELSE {"none"}

\* the except clauses of the three tools: except HttpError
Caught(name, exc) == exc = "HttpError"

\* a variant of the except clause that returns the error without the flag
CreateEventErrorNoFlag == [error |-> "Event creation failed"]

\* what create_google_meet_event returns from its except clause
CreateEventError == [error |-> "Event creation failed", success |-> FALSE]

\* what execute_tool returns when the tool returns
ToolOutput(name, exc) ==
    IF name = CHECK
    THEN IF exc = "none"
         THEN [available_slots |-> "slots", duration |-> "duration", timezone |-> "EST"]
         ELSE [error |-> "Calendar check failed"]
    ELSE IF name = CREATE
    THEN IF exc = "none"
         THEN [event_id |-> "id", meet_link |-> "uri", calendar_link |-> "htmlLink",
               date |-> "date", time |-> "time", duration |-> "duration",
               attendee |-> "attendee_email", topic |-> "topic", success |-> TRUE]
         ELSE CreateEventError
    ELSE IF name = SEND
    THEN IF exc = "none"
         THEN [success |-> TRUE, emails_sent |-> "emails",
               attendee_message_id |-> "id", notification_message_id |-> "id",
               timestamp |-> "now"]
         ELSE [error |-> "Email sending failed", success |-> FALSE]
    ELSE [error |-> "Unknown tool"]

\* a turn of a chat history; owner (the request it belongs to) is a ghost field
Turn(r, role, content) == [owner |-> r, role |-> role, content |-> content]

\* request.conversation_history: empty, or an earlier exchange of the caller
Histories(r) ==
    { <<>>, <<Turn(r, "USER", "earlier message"), Turn(r, "CHATBOT", "earlier reply")>> }

\* request.conversation_history is a List field of ChatRequest (default []):
\* chat_endpoint never passes None
HistoryIsNone(r) == FALSE

\* if conversation_history is None: conversation_history = self.conversation_history
ChatHistoryArg(r) ==
    IF HistoryIsNone(r) THEN conversation_history[AgentOf(r)] ELSE req_history[r]

\* the chat_history co.chat is given, with the turn this call adds to it
Prompt(r) ==
    IF response[r] = None
    THEN ChatHistoryArg(r) \o <<Turn(r, "USER", "message")>>
    ELSE response[r].chat_history \o <<Turn(r, "TOOL", tool_results[r])>>

\* the response of co.chat
ModelResponse(r, batch) ==
    [tool_calls |-> batch,
     chat_history |-> Prompt(r) \o <<Turn(r, "CHATBOT", batch)>>,
     text |-> [owner |-> r, text |-> IF batch = <<>> THEN "reply" ELSE "plan"]]

\* chat_endpoint up to the first co.chat: a fresh agent, then chat(message, history)
ChatEndpoint(r) ==
    /\ pc[r] = "idle"
    /\ \E h \in Histories(r) : req_history' = [req_history EXCEPT ![r] = h]
    /\ conversation_history' = [conversation_history EXCEPT ![AgentOf(r)] = <<>>]
    /\ pc' = [pc EXCEPT ![r] = "AwaitingModel"]
    /\ UNCHANGED <<response, tool_results, rounds, last_exec, failure, chat_response>>
    /\ UNCHANGED avail_vars

\* co.chat returns tool calls: while response.tool_calls
ModelRequestsTools(r) ==
    /\ pc[r] = "AwaitingModel"
    /\ rounds[r] < MaxRounds
    /\ \E batch \in Batches \ {<<>>} :
          response' = [response EXCEPT ![r] = ModelResponse(r, batch)]
    /\ tool_results' = [tool_results EXCEPT ![r] = <<>>]
    /\ rounds' = [rounds EXCEPT ![r] = @ + 1]
    /\ last_exec' = [last_exec EXCEPT ![r] = None]
    /\ pc' = [pc EXCEPT ![r] = "ExecutingTools"]
    /\ UNCHANGED <<req_history, failure, conversation_history, chat_response>>
    /\ UNCHANGED avail_vars

\* co.chat returns no tool calls: the history is stored and the text returned
ModelRepliesFinal(r) ==
    /\ pc[r] = "AwaitingModel"
    /\ response' = [response EXCEPT ![r] = ModelResponse(r, <<>>)]
    /\ conversation_history' =
          [conversation_history EXCEPT ![AgentOf(r)] = response'[r].chat_history]
    /\ last_exec' = [last_exec EXCEPT ![r] = None]
    /\ pc' = [pc EXCEPT ![r] = "Done"]
    /\ UNCHANGED <<req_history, tool_results, rounds, failure, chat_response>>
    /\ UNCHANGED avail_vars

\* co.chat raises: chat_endpoint answers 500
ModelFails(r) ==
    /\ pc[r] = "AwaitingModel"
    /\ failure' = [failure EXCEPT ![r] = "CohereError"]
    /\ last_exec' = [last_exec EXCEPT ![r] = None]
    /\ pc' = [pc EXCEPT ![r] = "Error500"]
    /\ UNCHANGED <<req_history, response, tool_results, rounds,
                   conversation_history, chat_response>>
    /\ UNCHANGED avail_vars

\* the tool call the for loop is at
NextCall(r) == response[r].tool_calls[Len(tool_results[r]) + 1]

\* one pass of "for tool_call in response.tool_calls" in which execute_tool
\* returns; after the last pass co.chat is called with the results
ExecuteToolReturns(r) ==
    /\ pc[r] = "ExecutingTools"
    /\ LET call == NextCall(r) IN
       \E exc \in Endings(call.name) :
          /\ exc = "none" \/ Caught(call.name, exc)
          /\ tool_results' = [tool_results EXCEPT ![r] =
                Append(@, [call |-> call, outputs |-> <<ToolOutput(call.name, exc)>>])]
          /\ last_exec' = [last_exec EXCEPT ![r] = [call |-> call, exc |-> exc]]
    /\ pc' = [pc EXCEPT ![r] =
          IF Len(tool_results'[r]) = Len(response[r].tool_calls)
          THEN "AwaitingModel" ELSE "ExecutingTools"]
    /\ UNCHANGED <<req_history, response, rounds, failure, conversation_history,
                   chat_response>>
    /\ UNCHANGED avail_vars

\* a pass in which the exception is not caught: it leaves execute_tool and
\* chat(), and chat_endpoint's except Exception answers 500
ExecuteToolRaises(r) ==
    /\ pc[r] = "ExecutingTools"
    /\ LET call == NextCall(r) IN
       \E exc \in Endings(call.name) :
          /\ exc /= "none" /\ ~ Caught(call.name, exc)
          /\ last_exec' = [last_exec EXCEPT ![r] = [call |-> call, exc |-> exc]]
          /\ failure' = [failure EXCEPT ![r] = exc]
    /\ pc' = [pc EXCEPT ![r] = "Error500"]
    /\ UNCHANGED <<req_history, response, tool_results, rounds,
                   conversation_history, chat_response>>
    /\ UNCHANGED avail_vars

\* chat_endpoint builds the ChatResponse from agent.conversation_history
Respond(r) ==
    /\ pc[r] = "Done"
    /\ chat_response[r] = None
    /\ chat_response' = [chat_response EXCEPT ![r] =
          [response |-> response[r].text,
           conversation_history |-> conversation_history[AgentOf(r)]]]
    /\ UNCHANGED <<pc, req_history, response, tool_results, rounds, last_exec,
                   failure, conversation_history>>
    /\ UNCHANGED avail_vars

InitChat ==
    /\ pc = [r \in Requests |-> "idle"]
    /\ req_history = [r \in Requests |-> <<>>]
    /\ response = [r \in Requests |-> None]
    /\ tool_results = [r \in Requests |-> <<>>]
    /\ rounds = [r \in Requests |-> 0]
    /\ last_exec = [r \in Requests |-> None]
    /\ failure = [r \in Requests |-> "none"]
    /\ conversation_history = [a \in Agents |-> <<>>]
    /\ chat_response = [r \in Requests |-> None]

NextChat ==
    \E r \in Requests :
        \/ ChatEndpoint(r)
        \/ ModelRequestsTools(r)
        \/ ModelRepliesFinal(r)
        \/ ModelFails(r)
        \/ ExecuteToolReturns(r)
        \/ ExecuteToolRaises(r)
        \/ Respond(r)

-----------------------------------------------------------------------------
(* Specifications *)

\* the availability computation, called once (as GET /api/availability does)
InitSpecAvail == InitAvail /\ InitChat

SpecAvail == InitSpecAvail /\ [][NextAvail]_vars

\* two concurrent chat requests
InitSpecChat == InitAvailIdle /\ InitChat

SpecChat == InitSpecChat /\ [][NextChat]_vars

-----------------------------------------------------------------------------
(* Properties of check_calendar_availability, stated on what the call was   *)
(* given (date_range, duration, the clock, the free/busy answer) and on the *)
(* dict it returned                                                         *)

\* the call returned a list of slots
Returned == avail_pc = "returned" /\ "available_slots" \in DOMAIN avail_result

ReturnedSlots == avail_result.available_slots

\* the instant (UTC minutes) at which a returned slot starts: its date and
\* time are Eastern wall-clock values
StartOf(slot) == slot.date * 1440 + slot.time + 300

\* the instant of a timestamp of the free/busy answer
BusyInstant(ts) == IF ts.suffix = "Z" THEN ts.wall ELSE ts.wall + 300

\* [from, from + dur) overlaps the busy interval b
Overlaps(from, dur, b) ==
    from < BusyInstant(b.end) /\ from + dur > BusyInstant(b.start)

\* the 30-minute grid from 09:00 up to, not including, 21:00
GridTimes == { 9 * 60 + 30 * k : k \in 0 .. 23 }

\* the dates from the resolved start date to the resolved end date
IntervalDates ==
    { d \in 0 .. 40 : /\ freebusy_body.timeMin.wall \div 1440 <= d
                      /\ d <= freebusy_body.timeMax.wall \div 1440 }

\* the (date, time) pairs of the interval that qualify: a weekday, on the
\* grid, later than now + 24 h, overlapping no busy interval
Qualifying ==
    { q \in IntervalDates \X GridTimes :
        /\ q[1] % 7 \in 0 .. 4
        /\ q[1] * 1440 + q[2] + 300 > now_utc + 24 * 60
        /\ \A b \in busy_times : ~ Overlaps(q[1] * 1440 + q[2] + 300, duration, b) }

\* the reference date: the date of the server's clock at the call
ReferenceDate == (now_utc + server_off) \div 1440

\* C1: no returned slot [start, start + duration) overlaps any busy interval
\* of the free/busy answer (start < busyEnd and end > busyStart).
C1_NoSlotOverlapsBusy ==
    Returned =>
        \A i \in 1 .. Len(ReturnedSlots) : \A b \in busy_times :
            ~ Overlaps(StartOf(ReturnedSlots[i]), duration, b)

\* C1 witness: two busy intervals that overlap each other were reported, a
\* candidate that is otherwise acceptable was dropped for overlapping one of
\* them, and a later slot was returned.
C1_Witness ==
    /\ Returned
    /\ Len(ReturnedSlots) > 0
    /\ \E b1, b2 \in busy_times :
          /\ b1 /= b2
          /\ Overlaps(BusyInstant(b1.start),
                      BusyInstant(b1.end) - BusyInstant(b1.start), b2)
    /\ \E d \in IntervalDates, t \in GridTimes, b \in busy_times :
          /\ d % 7 \in 0 .. 4
          /\ d * 1440 + t + 300 > now_utc + 24 * 60
          /\ Overlaps(d * 1440 + t + 300, duration, b)
          /\ d * 1440 + t + 300 < StartOf(ReturnedSlots[Len(ReturnedSlots)])

\* C2: every returned slot starts strictly later than now + 24 hours.
C2_StartsAfterAdvanceNotice ==
    Returned =>
        \A i \in 1 .. Len(ReturnedSlots) :
            StartOf(ReturnedSlots[i]) > now_utc + 24 * 60

\* C2 witness: the candidate starting exactly at now + 24 h is on a weekday
\* of the interval, on the grid and free, and is not returned, while the
\* next grid time is.
C2_Witness ==
    /\ Returned
    /\ busy_times = {}
    /\ \E d \in IntervalDates, t \in GridTimes :
          /\ d % 7 \in 0 .. 4
          /\ d * 1440 + t + 300 = now_utc + 24 * 60
          /\ Len(ReturnedSlots) > 0
          /\ ReturnedSlots[1].date = d
          /\ ReturnedSlots[1].time = t + 30

\* C3: every returned slot is on Monday..Friday and starts at a time of day
\* in [09:00, 21:00) on the 30-minute grid.
C3_WeekdayAndWorkingHours ==
    Returned =>
        \A i \in 1 .. Len(ReturnedSlots) :
            /\ ReturnedSlots[i].date % 7 \in 0 .. 4
            /\ ReturnedSlots[i].day = ReturnedSlots[i].date % 7
            /\ ReturnedSlots[i].time \in GridTimes

\* C3 witness: the loop went over a Saturday and a Sunday, and slots before
\* and after that weekend were returned.
C3_Witness ==
    /\ Returned
    /\ Len(ReturnedSlots) = 5
    /\ \E i \in 1 .. Len(dates_iterated) : dates_iterated[i] % 7 = 5
    /\ ReturnedSlots[1].date % 7 = 4
    /\ ReturnedSlots[5].date % 7 = 0
    /\ busy_times /= {}

\* C4: at most 5 slots are returned, in strictly increasing chronological
\* order, and they are exactly the chronologically first 5 qualifying slots
\* of the interval (all of them when fewer than 5 qualify).
C4_FirstFiveInOrder ==
    Returned =>
        /\ Len(ReturnedSlots) <= 5
        /\ \A i \in 1 .. Len(ReturnedSlots) - 1 :
              StartOf(ReturnedSlots[i]) < StartOf(ReturnedSlots[i + 1])
        /\ \A i \in 1 .. Len(ReturnedSlots) :
              <<ReturnedSlots[i].date, ReturnedSlots[i].time>> \in Qualifying
        /\ Len(ReturnedSlots) =
              IF Cardinality(Qualifying) < 5 THEN Cardinality(Qualifying) ELSE 5
        /\ \A q \in Qualifying :
              \/ \E i \in 1 .. Len(ReturnedSlots) :
                    <<ReturnedSlots[i].date, ReturnedSlots[i].time>> = q
              \/ \A i \in 1 .. Len(ReturnedSlots) :
                    StartOf(ReturnedSlots[i]) < q[1] * 1440 + q[2] + 300

\* C4 witness: more than 5 slots qualify, 5 are returned, and a busy interval
\* removed a candidate from among them.
C4_Witness ==
    /\ Returned
    /\ Cardinality(Qualifying) > 5
    /\ Len(ReturnedSlots) = 5
    /\ \E b \in busy_times, t \in GridTimes :
          /\ ReturnedSlots[1].time < t
          /\ t < ReturnedSlots[5].time
          /\ ReturnedSlots[1].date = ReturnedSlots[5].date
          /\ Overlaps(ReturnedSlots[1].date * 1440 + t + 300, duration, b)

\* C5 (as claimed): for every duration, every returned slot starts and ends
\* within 09:00..21:00 of its day.
C5_SlotWithinWorkingHours ==
    Returned =>
        \A i \in 1 .. Len(ReturnedSlots) :
            /\ ReturnedSlots[i].time >= 9 * 60
            /\ ReturnedSlots[i].time + duration <= 21 * 60

\* C8 (as claimed): for a phrase of the "tomorrow" branch the dates on which
\* slots are considered are exactly {reference date + 1}.
C8_TomorrowIsOneDay ==
    (Returned /\ Branch(date_range) = "tomorrow") =>
        { dates_iterated[i] : i \in 1 .. Len(dates_iterated) } = { ReferenceDate + 1 }

\* the phrases of the model that contain "next week", in any case
NextWeekPhrases ==
    { <<"n", "e", "x", "t", " ", "w", "e", "e", "k">>,
      <<"N", "e", "x", "t", " ", "W", "e", "e", "k">>,
      <<"t", "o", "m", "o", "r", "r", "o", "w", " ", "n", "e", "x", "t", " ", "w", "e", "e", "k">> }

\* C9: for a phrase containing "next week" the resolved interval starts on
\* the first Monday strictly after the reference date and ends exactly 7
\* days later.
C9_NextWeekInterval ==
    (avail_pc /= "idle" /\ date_range \in NextWeekPhrases) =>
        LET start == freebusy_body.timeMin.wall
            end == freebusy_body.timeMax.wall
        IN  /\ (start \div 1440) % 7 = 0
            /\ start \div 1440 > ReferenceDate
            /\ start \div 1440 <= ReferenceDate + 7
            /\ end = start + 7 * 1440

\* C9 witness: reference Monday 2024-01-01 (day 0), mixed-case phrase: the
\* interval is 2024-01-08 .. 2024-01-15 (days 7 .. 14).
C9_Witness ==
    /\ Returned
    /\ date_range = <<"N", "e", "x", "t", " ", "W", "e", "e", "k">>
    /\ ReferenceDate = 0
    /\ freebusy_body.timeMin.wall \div 1440 = 7
    /\ freebusy_body.timeMax.wall \div 1440 = 14
    /\ dates_iterated[1] = 7

\* the (date, time) pairs of the interval on a weekday, on the grid and later
\* than now + 24 h, whatever the busy intervals
Candidates ==
    { q \in IntervalDates \X GridTimes :
        /\ q[1] % 7 \in 0 .. 4
        /\ q[1] * 1440 + q[2] + 300 > now_utc + 24 * 60 }

\* the busy interval b is exactly [t, t + 30 min) of date d, Eastern time
CoversExactly(b, d, t) ==
    /\ BusyInstant(b.start) = d * 1440 + t + 300
    /\ BusyInstant(b.end) = d * 1440 + t + 30 + 300

\* the returned list is the chronologically first 5 of the set E of
\* (date, time) pairs (all of E when it has fewer than 5)
ReturnsFirstFiveOf(E) ==
    /\ Len(ReturnedSlots) = IF Cardinality(E) < 5 THEN Cardinality(E) ELSE 5
    /\ \A i \in 1 .. Len(ReturnedSlots) - 1 :
          StartOf(ReturnedSlots[i]) < StartOf(ReturnedSlots[i + 1])
    /\ \A i \in 1 .. Len(ReturnedSlots) :
          <<ReturnedSlots[i].date, ReturnedSlots[i].time>> \in E
    /\ \A q \in E :
          \/ \E i \in 1 .. Len(ReturnedSlots) :
                <<ReturnedSlots[i].date, ReturnedSlots[i].time>> = q
          \/ \A i \in 1 .. Len(ReturnedSlots) :
                StartOf(ReturnedSlots[i]) < q[1] * 1440 + q[2] + 300

\* C11: with duration 30, a single busy interval that exactly covers one grid
\* slot of a weekday removes that slot and no other: the slots returned are
\* the first 5 of all candidates but that one, so the slots before and after
\* it, which only touch the busy interval, stay.
C11_ExactCoverRemovesOnlyThatSlot ==
    (Returned /\ duration = 30) =>
        \A b \in busy_times, d \in IntervalDates, t \in GridTimes :
            (busy_times = {b} /\ d % 7 \in 0 .. 4 /\ CoversExactly(b, d, t)) =>
                ReturnsFirstFiveOf(Candidates \ {<<d, t>>})

\* C11 witness: the busy interval is 10:00-10:30 of a day whose 09:00 slot
\* qualifies; 09:00, 09:30, 10:30, 11:00 and 11:30 of that day are returned.
C11_Witness ==
    /\ Returned
    /\ duration = 30
    /\ Len(ReturnedSlots) = 5
    /\ \E b \in busy_times :
          /\ busy_times = {b}
          /\ CoversExactly(b, ReturnedSlots[1].date, 10 * 60)
    /\ [i \in 1 .. 5 |-> ReturnedSlots[i].time] = <<540, 570, 630, 660, 690>>
    /\ ReturnedSlots[5].date = ReturnedSlots[1].date

\* the candidate slots the loops examine: every time of day of the two for
\* loops on every weekday date the while loop visits
ExaminedSlots ==
    { <<dates_iterated[i], TimesOfDay[j]>> :
        i \in { k \in 1 .. Len(dates_iterated) : dates_iterated[k] % 7 \in 0 .. 4 },
        j \in 1 .. Len(TimesOfDay) }

\* [from, from + dur) lies inside the window of the free/busy query
InQueryWindow(from, dur) ==
    /\ BusyInstant(freebusy_body.timeMin) <= from
    /\ from + dur <= BusyInstant(freebusy_body.timeMax)

\* C13 (as claimed): every candidate slot examined lies inside the window
\* [timeMin, timeMax] sent to the free/busy query.
C13_ExaminedSlotsInsideQueryWindow ==
    Returned =>
        \A q \in ExaminedSlots : InQueryWindow(q[1] * 1440 + q[2] + 300, duration)

-----------------------------------------------------------------------------
(* Properties of the tool dispatch loop *)

\* execute_tool has just run create_google_meet_event for request r and the
\* provider failed in it
CreateJustFailed(r) ==
    /\ last_exec[r] /= None
    /\ last_exec[r].call.name = CREATE
    /\ last_exec[r].exc = "HttpError"

\* C6: when the provider fails (HttpError) in create_google_meet_event called
\* from the loop, the tool result collected for the model, paired with that
\* call, has an error field and success = FALSE, and the request goes on (to
\* the next tool call of the round or to the next co.chat) instead of ending.
C6_CreateFailureIsFedBack ==
    \A r \in Requests :
        CreateJustFailed(r) =>
            /\ pc[r] \in {"ExecutingTools", "AwaitingModel"}
            /\ failure[r] = "none"
            /\ Len(tool_results[r]) > 0
            /\ LET result == tool_results[r][Len(tool_results[r])] IN
                  /\ result.call = last_exec[r].call
                  /\ Len(result.outputs) = 1
                  /\ "error" \in DOMAIN result.outputs[1]
                  /\ "success" \in DOMAIN result.outputs[1]
                  /\ result.outputs[1].success = FALSE

\* C6 witness: the failed create call was the only call of its round, and the
\* request is at the next co.chat with the error result to feed back.
C6_Witness ==
    \E r \in Requests :
        /\ CreateJustFailed(r)
        /\ pc[r] = "AwaitingModel"
        /\ Len(tool_results[r]) = 1
        /\ tool_results[r][1].outputs[1].success = FALSE

\* C7 (as claimed): no failure of a tool leaves chat(): a request never ends
\* with an exception raised while a tool was executed.
C7_NoToolFailureEscapes ==
    \A r \in Requests : failure[r] \in {"none", "CohereError"}

\* the turns of a chat history all belong to request r
OwnTurns(r, history) ==
    \A i \in 1 .. Len(history) : history[i].owner = r

\* C10: for any interleaving of the two requests, the history and the reply
\* returned for a request hold only that request's turns: the history is the
\* one its own co.chat calls built.
C10_RequestsAreIsolated ==
    \A r \in Requests :
        /\ response[r] /= None => OwnTurns(r, response[r].chat_history)
        /\ chat_response[r] /= None =>
              /\ chat_response[r].response.owner = r
              /\ OwnTurns(r, chat_response[r].conversation_history)
              /\ chat_response[r].conversation_history = response[r].chat_history

\* C10 witness: both requests ran a tool round and both chat() calls have
\* returned before either answer was built; then request 1 was answered.
C10_Witness ==
    /\ pc[1] = "Done" /\ pc[2] = "Done"
    /\ rounds[1] = 1 /\ rounds[2] = 1
    /\ chat_response[1] /= None
    /\ chat_response[2] = None
    /\ Len(chat_response[1].conversation_history) > 2

\* the tool round of request r ends in this step with its results collected
RoundCollected(r) == pc[r] = "ExecutingTools" /\ pc'[r] = "AwaitingModel"

\* one result per requested invocation, each paired with its invocation, in
\* request order
ResultsMatchCalls(results, calls) ==
    /\ Len(results) = Len(calls)
    /\ \A i \in 1 .. Len(calls) :
          /\ results[i].call = calls[i]
          /\ Len(results[i].outputs) = 1

\* C12 (as claimed): in every round ExecutingTools yields one result per
\* requested invocation, paired with it and in request order, and then always
\* returns to AwaitingModel; Done is entered only from AwaitingModel, when the
\* model returns no tool invocations, and is terminal.
C12_DispatchLoopStateMachine ==
    [][\A r \in Requests :
          /\ pc[r] = "ExecutingTools" => pc'[r] \in {"ExecutingTools", "AwaitingModel"}
          /\ RoundCollected(r) =>
                ResultsMatchCalls(tool_results'[r], response[r].tool_calls)
          /\ (pc[r] /= "Done" /\ pc'[r] = "Done") =>
                /\ pc[r] = "AwaitingModel"
                /\ response'[r].tool_calls = <<>>
          /\ pc[r] = "Done" => pc'[r] = "Done"]_vars

=============================================================================
